---- MODULE Spec2Model ----
(***************************************************************************)
(* BlogSpace API server: the authenticated-request pipeline                *)
(* (middleware/auth.js), the user routes (routes/user.js), the blog routes *)
(* (routes/blog.js) and the Blog model methods (models/Blog.js), over a    *)
(* document store that offers per-document atomic operations only.         *)
(*                                                                         *)
(* Every database operation (findById, save, findByIdAndUpdate, ...) and   *)
(* every media-store call is one atomic step; the code between two awaits  *)
(* belongs to the step of the operation it follows.  A request in progress *)
(* occupies a slot of `inflight` with its position (pc) and the documents  *)
(* it has loaded; its response stays in the slot (pc = "done") until the   *)
(* client has received it.                                                 *)
(*                                                                         *)
(* Mongoose's save() sends only the modified paths: an array push is sent  *)
(* as $push (no version condition), an array that was spliced or assigned  *)
(* is sent as $set of the whole array under the condition that the         *)
(* document's version (__v) is the one that was loaded (VersionError       *)
(* otherwise), and a changed number is sent as $set of the new value.      *)
(* Every array write increments __v; the model keeps, per loaded document, *)
(* whether __v has moved since it was loaded (`stale`).                    *)
(***************************************************************************)
EXTENDS Integers, Sequences, FiniteSets, TLC

\* ---------------------------------------------------------------- bounds
NumUsers == 2        \* registered identities
NumBlogs == 2        \* posts ever created
NumMedia == 1        \* external media identifiers
MaxTime == 7         \* clock range, in days
MaxTokens == 3       \* session tokens handed out
MaxInFlight == 2     \* requests in progress at once
MaxViews == 2        \* view requests accepted per post
MaxList == 1         \* length of a relation or like list when a request is accepted
MaxCloud == 1        \* media-store delete calls recorded
NumFresh == 2        \* usernames and emails that no identity of Init holds

\* ------------------------------------------------------ program constants
ExpiresIn == 7       \* jwt.sign(..., { expiresIn: '7d' })
WordsPerMinute == 200  \* Math.ceil(wordCount / 200)

UserIds == 1..NumUsers
BlogIds == 1..NumBlogs
MediaIds == 1..NumMedia
Slots == 1..MaxInFlight
Time == 0..MaxTime

NoUser == 0
NoId == NoUser       \* a route without :id parameter
NoMedia == 0          \* a media object without public_id
NoField == -1         \* a key the request body does not carry
Null == -1           \* a null Date

\* ---------------------------------------------------------------- state
VARIABLES
    now,             \* the server clock
    issued,          \* tokens the clients hold (signed by generateToken)
    tokenBlacklist,  \* auth.js: const tokenBlacklist = new Set()
    users,           \* User collection: id -> [following, followers]
    blogs,           \* Blog collection: id -> document or NoBlog
    nextBlog,        \* next fresh Blog _id
    cloud,           \* cloudinary.uploader.destroy calls, in order
    inflight,        \* slot -> frame of a request in progress, or its response
    storeFailed,     \* whether a store write has thrown
    accounts,        \* User collection: the username and email of every identity
    mediaFailed      \* whether a cloudinary.uploader.destroy call has thrown

vars == <<now, issued, tokenBlacklist, users, blogs, nextBlog, cloud, inflight, storeFailed,
          accounts, mediaFailed>>

\* ---------------------------------------------------------------- values
NoToken == [userId |-> NoUser, iat |-> 0, good |-> FALSE]
NoHeader == [scheme |-> "none", token |-> NoToken]
Bearer(t) == [scheme |-> "bearer", token |-> t]
Raw(t) == [scheme |-> "raw", token |-> t]

NoBlog == [status |-> "none"]
Idle == [pc |-> "idle"]

\* A request: route, Authorization header, :id / :userId parameter, body or query.
Req(route, hdr, target, body) ==
    [route |-> route, hdr |-> hdr, target |-> target, body |-> body]

NoBody == [empty |-> TRUE]
\* A body text: `words` words separated by runs of whitespace, with or without
\* whitespace before the first and after the last word.  Words are long enough
\* for a text of one word to have 10 characters; a text without words is the
\* empty string.
Text(lead, words, trail) == [lead |-> lead, words |-> words, trail |-> trail]
NoContent == Text(FALSE, NoField, FALSE)      \* no content key in the body
Plain == Text(FALSE, 1, FALSE)

\* The fields of a post body that the model follows: "absent" / NoField when the
\* key is not in the body.  tags is "ok" for an array of at most 10 tags of 1 to
\* 20 characters, "emptyTag" for an array with a tag of no characters,
\* "tooMany" for an array of more than 10 tags.
Post(status, media) ==
    [status |-> status, media |-> media, content |-> Plain, tags |-> "ok"]
Query(sort, page, limit) == [sort |-> sort, page |-> page, limit |-> limit]

\* A JavaScript number in a response: an integer, or Infinity / NaN (which JSON
\* writes as null).
Number(n) == [finite |-> TRUE, value |-> n]
NonFinite == [finite |-> FALSE, value |-> 0]

NoData == [liked |-> FALSE, count |-> 0, ids |-> <<>>, total |-> 0, blog |-> NoBlog,
           token |-> NoToken, before |-> <<>>, after |-> <<>>, totalPages |-> Number(0)]

\* res.status(code).json(...): stage names the part of the pipeline that answered.
Done(req, stage, code, user, data) ==
    [pc |-> "done", req |-> req, stage |-> stage, code |-> code, user |-> user,
     data |-> data]

RECURSIVE SeqToSet(_)
SeqToSet(s) == IF s = <<>> THEN {} ELSE {Head(s)} \cup SeqToSet(Tail(s))

FilterKeepsAll(s, x) == s

RECURSIVE Filter(_, _)
\* Array.prototype.filter(id => id !== x)
Filter(s, x) ==
    IF s = <<>> THEN <<>>
    ELSE IF Head(s) = x THEN Filter(Tail(s), x)
    ELSE <<Head(s)>> \o Filter(Tail(s), x)

RECURSIVE IndexOf(_, _)
\* Array.prototype.indexOf, 1-based; 0 when absent
IndexOf(s, x) ==
    IF s = <<>> THEN 0
    ELSE IF Head(s) = x THEN 1
    ELSE IF IndexOf(Tail(s), x) = 0 THEN 0 ELSE 1 + IndexOf(Tail(s), x)

Includes(s, x) == IndexOf(s, x) > 0

\* Array.prototype.splice(i, 1)
Splice(s, i) == SubSeq(s, 1, i - 1) \o SubSeq(s, i + 1, Len(s))

FreeSlot(s) == inflight[s] = Idle /\ \A t \in Slots : t < s => inflight[t] # Idle

\* ------------------------------------------------- credentials and session
\* jwt.sign({ userId }, secret, { expiresIn: '7d' }): the token is determined by
\* the identity and the issue time.
generateToken(userId) == [userId |-> userId, iat |-> now, good |-> TRUE]

isTokenBlacklisted(token) == token \in tokenBlacklist

blacklistTokenOfIdentity(token) ==
    tokenBlacklist' = tokenBlacklist \cup {t \in issued : t.userId = token.userId}

blacklistToken(token) == tokenBlacklist' = tokenBlacklist \cup {token}

\* jwt.verify: JsonWebTokenError for a token that does not verify,
\* TokenExpiredError once the clock has reached exp = iat + 7d.
jwtVerify(token) ==
    IF ~token.good THEN "JsonWebTokenError"
    ELSE IF now >= token.iat + ExpiresIn THEN "TokenExpiredError"
    ELSE "ok"

Accept(user) == [ok |-> TRUE, code |-> 200, user |-> user]
Reject(code) == [ok |-> FALSE, code |-> code, user |-> NoUser]

authNoBlacklist(hdr) ==
    IF hdr.scheme # "bearer" THEN Reject(401)
    ELSE IF jwtVerify(hdr.token) # "ok" THEN Reject(401)
    ELSE IF hdr.token.userId \notin UserIds THEN Reject(404)
    ELSE Accept(hdr.token.userId)

authNoExpiry(hdr) ==
    IF hdr.scheme # "bearer" THEN Reject(401)
    ELSE IF isTokenBlacklisted(hdr.token) THEN Reject(401)
    ELSE IF ~hdr.token.good THEN Reject(401)
    ELSE IF hdr.token.userId \notin UserIds THEN Reject(404)
    ELSE Accept(hdr.token.userId)

\* const auth = async (req, res, next) => ...
auth(hdr) ==
    IF hdr.scheme # "bearer" THEN Reject(401)
    ELSE IF isTokenBlacklisted(hdr.token) THEN Reject(401)
    ELSE IF jwtVerify(hdr.token) # "ok" THEN Reject(401)
    ELSE IF hdr.token.userId \notin UserIds THEN Reject(404)
    ELSE Accept(hdr.token.userId)

\* const optionalAuth = async (req, res, next) => ...: the header with 'Bearer '
\* removed is verified; any failure leaves the request unauthenticated.  The
\* revocation set is not consulted.
optionalAuth(hdr) ==
    IF hdr.scheme = "none" THEN NoUser
    ELSE IF jwtVerify(hdr.token) # "ok" THEN NoUser
    ELSE IF hdr.token.userId \notin UserIds THEN NoUser
    ELSE hdr.token.userId

\* ---------------------------------------------------------------- Init
\* The store holds the registered identities, each holding a token of a login
\* at day 0; the process starts two days before those tokens expire, with an
\* empty revocation set.
Init ==
    /\ now = ExpiresIn - 2
    /\ issued = {[userId |-> u, iat |-> 0, good |-> TRUE] : u \in UserIds}
    /\ tokenBlacklist = {}
    /\ users = [u \in UserIds |-> [following |-> <<>>, followers |-> <<>>]]
    /\ blogs = [b \in BlogIds |-> NoBlog]
    /\ nextBlog = 1
    /\ cloud = <<>>
    /\ inflight = [s \in Slots |-> Idle]
    /\ storeFailed = FALSE
    /\ accounts = [u \in UserIds |-> [username |-> u, email |-> u]]
    /\ mediaFailed = FALSE

\* Headers a client can send: nothing, a token it holds (with or without the
\* Bearer prefix), or a string that is not a token signed by this server.
Forged == [userId |-> 1, iat |-> 0, good |-> FALSE]
Held == {Bearer(t) : t \in issued}
Headers == {NoHeader, Bearer(Forged)} \cup Held \cup {Raw(t) : t \in issued}

Put(s, frame) == [inflight EXCEPT ![s] = frame]

\* The client receives the response.
Receive(s) ==
    /\ inflight[s].pc = "done"
    /\ inflight' = Put(s, Idle)
    /\ UNCHANGED <<mediaFailed, accounts, now, issued, tokenBlacklist, users, blogs, nextBlog,
                   cloud, storeFailed>>

\* ---------------------------------------------------------------- clock
Tick ==
    /\ now < MaxTime
    /\ now' = now + 1
    /\ UNCHANGED <<mediaFailed, accounts, issued, tokenBlacklist, users, blogs, nextBlog, cloud,
                   inflight, storeFailed>>

\* The clock advances within the lifetime of the sessions of Init.
TickInSession == Tick /\ now + 1 < ExpiresIn

\* ------------------------------------------------------- POST /login
\* Credentials are checked against the identity store; a match returns
\* generateToken(user._id).
Login(s, u) ==
    /\ FreeSlot(s)
    /\ Cardinality(issued) < MaxTokens
    /\ issued' = issued \cup {generateToken(u)}
    /\ inflight' = Put(s, Done(Req("login", NoHeader, u, NoBody), "handler", 200,
                               u, [NoData EXCEPT !.token = generateToken(u)]))
    /\ UNCHANGED <<mediaFailed, accounts, now, tokenBlacklist, users, blogs, nextBlog, cloud,
                   storeFailed>>

\* ------------------------------------------------------- POST /logout
Logout(s, hdr) ==
    LET req == Req("logout", hdr, NoId, NoBody)
        a == auth(hdr)
    IN  /\ FreeSlot(s)
        /\ IF ~a.ok
           THEN /\ inflight' = Put(s, Done(req, "auth", a.code, NoUser, NoData))
                /\ UNCHANGED tokenBlacklist
           ELSE /\ blacklistToken(hdr.token)
                /\ inflight' = Put(s, Done(req, "handler", 200, a.user, NoData))
        /\ UNCHANGED <<mediaFailed, accounts, now, issued, users, blogs, nextBlog, cloud,
                       storeFailed>>

\* ------------------------------------------------ documents loaded by requests
IsUnfollow(f) == f.pc \in {"unfollow_load", "unfollow_save1", "unfollow_save2"}

\* A write that increments __v of user document x makes every copy of x loaded
\* earlier stale.
MarkUser(fl, x) ==
    [t \in Slots |->
        IF IsUnfollow(fl[t])
        THEN [fl[t] EXCEPT !.staleA = @ \/ fl[t].user = x,
                           !.staleB = @ \/ (fl[t].pc # "unfollow_load" /\ fl[t].req.target = x)]
        ELSE fl[t]]

UnknownUser == NumUsers + 1
Targets == UserIds \cup {UnknownUser}

\* ------------------------------------------------ POST /follow/:userId
AlreadyFollowingNever(following, userId) == FALSE

\* currentUser.following.includes(req.params.userId)
AlreadyFollowing(following, userId) == Includes(following, userId)

\* auth, the self check, findById(userToFollow), findById(currentUser) and the
\* includes check; the loaded userToFollow is used for its existence only.
FollowBegin(s, hdr, target) ==
    LET req == Req("follow", hdr, target, NoBody)
        a == auth(hdr)
    IN  /\ FreeSlot(s)
        /\ (a.ok /\ target \in UserIds /\ ~Includes(users[a.user].following, target))
              => Len(users[target].followers) < MaxList
        /\ inflight' = Put(s,
              IF ~a.ok THEN Done(req, "auth", a.code, NoUser, NoData)
              ELSE IF a.user = target THEN Done(req, "handler", 400, a.user, NoData)
              ELSE IF target \notin UserIds THEN Done(req, "handler", 404, a.user, NoData)
              ELSE IF AlreadyFollowing(users[a.user].following, target)
                   THEN Done(req, "handler", 400, a.user, NoData)
              ELSE [pc |-> "follow_save1", req |-> req, user |-> a.user])
        /\ UNCHANGED <<mediaFailed, accounts, now, issued, tokenBlacklist, users, blogs,
                       nextBlog, cloud, storeFailed>>

FollowSaveCurrentLost(s) ==
    LET f == inflight[s]
    IN  /\ f.pc = "follow_save1"
        /\ inflight' = [inflight EXCEPT ![s].pc = "follow_save2"]
        /\ UNCHANGED <<mediaFailed, accounts, now, issued, tokenBlacklist, users, blogs, nextBlog,
                       cloud, storeFailed>>

\* currentUser.following.push(req.params.userId); await currentUser.save()
FollowSaveCurrent(s) ==
    LET f == inflight[s]
    IN  /\ f.pc = "follow_save1"
        /\ users' = [users EXCEPT ![f.user].following = Append(@, f.req.target)]
        /\ inflight' = [MarkUser(inflight, f.user) EXCEPT ![s].pc = "follow_save2"]
        /\ UNCHANGED <<mediaFailed, accounts, now, issued, tokenBlacklist, blogs, nextBlog,
                       cloud, storeFailed>>

\* userToFollow.followers.push(req.user._id); await userToFollow.save()
FollowSaveTarget(s) ==
    LET f == inflight[s]
    IN  /\ f.pc = "follow_save2"
        /\ users' = [users EXCEPT ![f.req.target].followers = Append(@, f.user)]
        /\ inflight' = [MarkUser(inflight, f.req.target) EXCEPT
                           ![s] = Done(f.req, "handler", 200, f.user, NoData)]
        /\ UNCHANGED <<mediaFailed, accounts, now, issued, tokenBlacklist, blogs, nextBlog,
                       cloud, storeFailed>>

\* await userToFollow.save() rejects (the store is unreachable or refuses the
\* write): control passes to the catch block, which answers 500 and writes
\* nothing.
FollowSaveTargetFails(s) ==
    LET f == inflight[s]
    IN  /\ f.pc = "follow_save2"
        /\ inflight' = Put(s, Done(f.req, "handler", 500, f.user, NoData))
        /\ storeFailed' = TRUE
        /\ UNCHANGED <<mediaFailed, accounts, now, issued, tokenBlacklist, users, blogs,
                       nextBlog, cloud>>

\* ------------------------------------------------ POST /unfollow/:userId
\* auth and findById(currentUser)
UnfollowBegin(s, hdr, target) ==
    LET req == Req("unfollow", hdr, target, NoBody)
        a == auth(hdr)
    IN  /\ FreeSlot(s)
        /\ inflight' = Put(s,
              IF ~a.ok THEN Done(req, "auth", a.code, NoUser, NoData)
              ELSE [pc |-> "unfollow_load", req |-> req, user |-> a.user,
                    following |-> users[a.user].following, staleA |-> FALSE,
                    followers |-> <<>>, staleB |-> FALSE])
        /\ UNCHANGED <<mediaFailed, accounts, now, issued, tokenBlacklist, users, blogs,
                       nextBlog, cloud, storeFailed>>

\* findById(userToUnfollow)
UnfollowLoad(s) ==
    LET f == inflight[s]
    IN  /\ f.pc = "unfollow_load"
        /\ inflight' = Put(s,
              IF f.req.target \notin UserIds
              THEN Done(f.req, "handler", 404, f.user, NoData)
              ELSE [f EXCEPT !.pc = "unfollow_save1",
                             !.followers = users[f.req.target].followers])
        /\ UNCHANGED <<mediaFailed, accounts, now, issued, tokenBlacklist, users, blogs,
                       nextBlog, cloud, storeFailed>>

\* currentUser.following = currentUser.following.filter(...); await currentUser.save()
\* An assignment that leaves the array equal is no modification and writes nothing.
UnfollowSaveCurrent(s) ==
    LET f == inflight[s]
        filtered == Filter(f.following, f.req.target)
    IN  /\ f.pc = "unfollow_save1"
        /\ IF filtered = f.following
           THEN /\ inflight' = [inflight EXCEPT ![s].pc = "unfollow_save2"]
                /\ UNCHANGED <<users, storeFailed>>
           ELSE IF f.staleA
           THEN /\ inflight' = Put(s, Done(f.req, "handler", 500, f.user, NoData))
                /\ storeFailed' = TRUE
                /\ UNCHANGED users
           ELSE /\ users' = [users EXCEPT ![f.user].following = filtered]
                /\ inflight' = [MarkUser(inflight, f.user) EXCEPT
                                   ![s].pc = "unfollow_save2",
                                   ![s].staleA = FALSE,
                                   ![s].staleB = f.staleB \/ f.req.target = f.user]
                /\ UNCHANGED storeFailed
        /\ UNCHANGED <<mediaFailed, accounts, now, issued, tokenBlacklist, blogs, nextBlog, cloud>>

\* userToUnfollow.followers = userToUnfollow.followers.filter(...); await userToUnfollow.save()
UnfollowSaveTarget(s) ==
    LET f == inflight[s]
        filtered == Filter(f.followers, f.user)
    IN  /\ f.pc = "unfollow_save2"
        /\ IF filtered = f.followers
           THEN /\ inflight' = Put(s, Done(f.req, "handler", 200, f.user, NoData))
                /\ UNCHANGED <<users, storeFailed>>
           ELSE IF f.staleB
           THEN /\ inflight' = Put(s, Done(f.req, "handler", 500, f.user, NoData))
                /\ storeFailed' = TRUE
                /\ UNCHANGED users
           ELSE /\ users' = [users EXCEPT ![f.req.target].followers = filtered]
                /\ inflight' = [MarkUser(inflight, f.req.target) EXCEPT
                                   ![s] = Done(f.req, "handler", 200, f.user, NoData)]
                /\ UNCHANGED storeFailed
        /\ UNCHANGED <<mediaFailed, accounts, now, issued, tokenBlacklist, blogs, nextBlog, cloud>>

\* ------------------------------------------------ Blog documents
IsLike(f) == f.pc = "like_save"

\* A write that increments __v of blog document b makes every copy of b loaded
\* earlier stale.
MarkBlog(fl, b) ==
    [t \in Slots |->
        IF IsLike(fl[t]) /\ fl[t].req.target = b
        THEN [fl[t] EXCEPT !.stale = TRUE]
        ELSE fl[t]]

Exists(b) == b \in BlogIds /\ blogs[b] # NoBlog

ValidStatusOfSchema(status) == status \in {"absent", "draft", "published", "archived"}

\* body('status').optional().isIn(['draft', 'published'])
ValidStatus(status) == status \in {"absent", "draft", "published"}

\* body('content').isLength({ min: 10 })
ValidContent(content) == content.words >= 1

\* The validators of POST /: content and tags are required, every tag is
\* checked (body('tags.*').isLength({ min: 1, max: 20 })).
ValidCreate(body) ==
    /\ ValidStatus(body.status)
    /\ ValidContent(body.content)
    /\ body.tags = "ok"

\* The validators of PUT /:id: every key is optional, and there is no validator
\* for the single tags.
ValidUpdate(body) ==
    /\ ValidStatus(body.status)
    /\ body.content = NoContent \/ ValidContent(body.content)
    /\ body.tags \in {"absent", "ok", "emptyTag"}

\* content.split(/\s+/).length: the pieces between the runs of whitespace, an
\* empty piece before a leading and after a trailing run included.
wordCount(content) ==
    IF content.words = 0 THEN 1
    ELSE content.words + (IF content.lead THEN 1 ELSE 0) + (IF content.trail THEN 1 ELSE 0)

\* Math.ceil(wordCount / 200)
readTime(content) == (wordCount(content) + WordsPerMinute - 1) \div WordsPerMinute

\* An identifier of an asset that is kept outside the media store ('local:...').
LocalMedia == NumMedia + 1

\* public_id.startsWith('local:')
startsWithLocal(public_id) == public_id = LocalMedia

deleteFileNever(public_id) == cloud' = cloud

\* deleteFile(public_id): cloudinary.uploader.destroy is called for a non-empty
\* identifier that does not start with 'local:'.
deleteFile(public_id) ==
    cloud' = IF public_id # NoMedia /\ ~startsWithLocal(public_id)
             THEN Append(cloud, public_id) ELSE cloud

\* ------------------------------------------------ POST /blogs
\* auth, the validators, new Blog({...}) and blog.save()
CreateBlog(s, hdr, body) ==
    LET req == Req("create", hdr, NoId, body)
        a == auth(hdr)
        status == IF body.status = "absent" THEN "draft" ELSE body.status
        blog == [author |-> a.user,
                 status |-> status,
                 publishedAt |-> IF status = "published" THEN now ELSE Null,
                 views |-> 0,
                 likes |-> <<>>,
                 comments |-> <<>>,
                 media |-> IF body.media = NoField THEN NoMedia ELSE body.media,
                 content |-> body.content,
                 tags |-> body.tags,
                 readTime |-> readTime(body.content)]
    IN  /\ FreeSlot(s)
        /\ nextBlog \in BlogIds
        /\ IF ~a.ok
           THEN /\ inflight' = Put(s, Done(req, "auth", a.code, NoUser, NoData))
                /\ UNCHANGED <<blogs, nextBlog>>
           ELSE IF ~ValidCreate(body)
           THEN /\ inflight' = Put(s, Done(req, "validation", 400, a.user, NoData))
                /\ UNCHANGED <<blogs, nextBlog>>
           ELSE /\ blogs' = [blogs EXCEPT ![nextBlog] = blog]
                /\ nextBlog' = nextBlog + 1
                /\ inflight' = Put(s, Done(Req("create", hdr, nextBlog, body), "handler", 201,
                                           a.user, [NoData EXCEPT !.blog = blog]))
        /\ UNCHANGED <<mediaFailed, accounts, now, issued, tokenBlacklist, users, cloud,
                       storeFailed>>

\* ------------------------------------------------ GET /blogs/:id
HiddenFromAnonymousOnly(blog, user) == blog.status # "published" /\ user = NoUser

\* blogDoc.status !== 'published' &&
\*   (!req.user || blogDoc.author._id.toString() !== req.user._id.toString())
Hidden(blog, user) == blog.status # "published" /\ (user = NoUser \/ blog.author # user)

\* optionalAuth, findById, the visibility check; a view by anyone but the author
\* of a published post goes on to incrementViews.
GetBegin(s, hdr, id) ==
    LET req == Req("get", hdr, id, NoBody)
        user == optionalAuth(hdr)
        blog == blogs[id]
    IN  /\ FreeSlot(s)
        /\ Exists(id) => blog.views < MaxViews
        /\ inflight' = Put(s,
              IF ~Exists(id) THEN Done(req, "handler", 404, user, NoData)
              ELSE IF Hidden(blog, user) THEN Done(req, "handler", 404, user, NoData)
              ELSE IF blog.status = "published" /\ (user = NoUser \/ blog.author # user)
                   THEN [pc |-> "get_save", req |-> req, user |-> user,
                         doc |-> [blog EXCEPT !.views = @ + 1]]
              ELSE Done(req, "handler", 200, user, [NoData EXCEPT !.blog = blog]))
        /\ UNCHANGED <<mediaFailed, accounts, now, issued, tokenBlacklist, users, blogs,
                       nextBlog, cloud, storeFailed>>

\* BlogSchema.methods.incrementViews: this.views += 1; return this.save() -- the
\* save writes the value computed from the loaded document.
incrementViews(s) ==
    LET f == inflight[s]
    IN  /\ f.pc = "get_save"
        /\ IF ~Exists(f.req.target)
           THEN /\ inflight' = Put(s, Done(f.req, "handler", 500, f.user, NoData))
                /\ storeFailed' = TRUE
                /\ UNCHANGED blogs
           ELSE /\ blogs' = [blogs EXCEPT ![f.req.target].views = f.doc.views]
                /\ inflight' = Put(s, Done(f.req, "handler", 200, f.user,
                                           [NoData EXCEPT !.blog = f.doc]))
                /\ UNCHANGED storeFailed
        /\ UNCHANGED <<mediaFailed, accounts, now, issued, tokenBlacklist, users, nextBlog, cloud>>

\* ------------------------------------------------ GET /blogs, GET /blogs/user/:userId
Max(a, b) == IF a > b THEN a ELSE b
Min(a, b) == IF a < b THEN a ELSE b

SortKey(b, sort) ==
    IF sort = "oldest" THEN blogs[b].publishedAt
    ELSE IF sort \in {"popular", "trending"} THEN 0 - blogs[b].views
    ELSE 0 - blogs[b].publishedAt

\* The orders in which the store may return the documents of S under .sort():
\* non-decreasing in the key, documents with equal keys in any order.
Sorted(S, sort) ==
    {q \in [1..Cardinality(S) -> S] :
        /\ \A i, j \in 1..Cardinality(S) : i # j => q[i] # q[j]
        /\ \A i, j \in 1..Cardinality(S) : i < j => SortKey(q[i], sort) <= SortKey(q[j], sort)}

\* .limit(limitNum).skip((pageNum - 1) * limitNum)
PageOf(q, pageNum, limitNum) ==
    SubSeq(q, (pageNum - 1) * limitNum + 1, Min(pageNum * limitNum, Len(q)))

Published == {b \in BlogIds : Exists(b) /\ blogs[b].status = "published"}

\* Math.ceil(total / limit), limit being the value of the query as sent
totalPages(total, limit) ==
    IF limit = 0 THEN NonFinite
    ELSE IF limit > 0 THEN Number((total + limit - 1) \div limit)
    ELSE Number(0 - (total \div (0 - limit)))

ListBlogs(s, hdr, query) ==
    LET req == Req("list", hdr, NoId, query)
        user == optionalAuth(hdr)
        pageNum == Max(1, query.page)
        limitNum == Min(100, Max(1, query.limit))
    IN  /\ FreeSlot(s)
        /\ \E q \in Sorted(Published, query.sort) :
              inflight' = Put(s, Done(req, "handler", 200, user,
                                      [NoData EXCEPT !.ids = PageOf(q, pageNum, limitNum),
                                                     !.total = Cardinality(Published),
                                                     !.totalPages =
                                                        totalPages(Cardinality(Published),
                                                                   query.limit)]))
        /\ UNCHANGED <<mediaFailed, accounts, now, issued, tokenBlacklist, users, blogs,
                       nextBlog, cloud, storeFailed>>

ListUserBlogs(s, userId, query) ==
    LET req == Req("list_user", NoHeader, userId, query)
        match == {b \in Published : blogs[b].author = userId}
    IN  /\ FreeSlot(s)
        /\ \E q \in Sorted(match, "newest") :
              inflight' = Put(s, Done(req, "handler", 200, NoUser,
                                      [NoData EXCEPT !.ids = PageOf(q, query.page, query.limit),
                                                     !.total = Cardinality(match),
                                                     !.totalPages =
                                                        totalPages(Cardinality(match),
                                                                   query.limit)]))
        /\ UNCHANGED <<mediaFailed, accounts, now, issued, tokenBlacklist, users, blogs,
                       nextBlog, cloud, storeFailed>>

\* ------------------------------------------------ PUT /blogs/:id
\* filteredUpdates: the allow-listed keys of the body, plus publishedAt when the
\* status handling sets it ("keep" when it does not).
Keep == NoField - 1

FilteredUpdatesDateKept(body, blog) ==
    [status |-> body.status,
     media |-> body.media,
     content |-> body.content,
     tags |-> body.tags,
     readTime |-> IF body.content # NoContent THEN readTime(body.content) ELSE Keep,
     publishedAt |-> IF body.status = "published" /\ blog.status # "published" THEN now
                     ELSE Keep]

FilteredUpdatesUnfiltered(body, blog) ==
    [readTime |-> IF body.content # NoContent THEN readTime(body.content) ELSE Keep,
     publishedAt |-> IF body.status = "published" /\ blog.status # "published" THEN now
                     ELSE IF body.status = "draft" THEN Null
                     ELSE Keep] @@ body

FilteredUpdates(body, blog) ==
    [status |-> body.status,
     media |-> body.media,
     content |-> body.content,
     tags |-> body.tags,
     readTime |-> IF body.content # NoContent THEN readTime(body.content) ELSE Keep,
     publishedAt |-> IF body.status = "published" /\ blog.status # "published" THEN now
                     ELSE IF body.status = "draft" THEN Null
                     ELSE Keep]

\* Blog.findByIdAndUpdate(id, filteredUpdates): $set of the keys present
ApplyUpdates(blog, upd) ==
    [blog EXCEPT !.status = IF upd.status = "absent" THEN @ ELSE upd.status,
                 !.media = IF upd.media = NoField THEN @ ELSE upd.media,
                 !.content = IF upd.content = NoContent THEN @ ELSE upd.content,
                 !.tags = IF upd.tags = "absent" THEN @ ELSE upd.tags,
                 !.readTime = IF upd.readTime = Keep THEN @ ELSE upd.readTime,
                 !.publishedAt = IF upd.publishedAt = Keep THEN @ ELSE upd.publishedAt,
                 !.author = IF "author" \in DOMAIN upd THEN upd.author ELSE @,
                 !.views = IF "views" \in DOMAIN upd THEN upd.views ELSE @,
                 !.likes = IF "likes" \in DOMAIN upd THEN upd.likes ELSE @,
                 !.comments = IF "comments" \in DOMAIN upd THEN upd.comments ELSE @]

IsOwnerAnyone(blog, user) == TRUE

\* blog.author.toString() === req.user._id.toString()
IsOwner(blog, user) == blog.author = user

\* auth, the validators, findById, the ownership check and the computation of
\* filteredUpdates
UpdateBegin(s, hdr, id, body) ==
    LET req == Req("update", hdr, id, body)
        a == auth(hdr)
        blog == blogs[id]
    IN  /\ FreeSlot(s)
        /\ Len(cloud) < MaxCloud
        /\ inflight' = Put(s,
              IF ~a.ok THEN Done(req, "auth", a.code, NoUser, NoData)
              ELSE IF ~ValidUpdate(body) THEN Done(req, "validation", 400, a.user, NoData)
              ELSE IF ~Exists(id) THEN Done(req, "handler", 404, a.user, NoData)
              ELSE IF ~IsOwner(blog, a.user) THEN Done(req, "handler", 403, a.user, NoData)
              ELSE [pc |-> IF body.media # NoField /\ blog.media # NoMedia
                           THEN "update_media" ELSE "update_write",
                    req |-> req, user |-> a.user, doc |-> blog,
                    upd |-> FilteredUpdates(body, blog)])
        /\ UNCHANGED <<mediaFailed, accounts, now, issued, tokenBlacklist, users, blogs,
                       nextBlog, cloud, storeFailed>>

\* await deleteFile(blog.media.public_id), a failure of the call is caught
UpdateDeleteMedia(s) ==
    LET f == inflight[s]
    IN  /\ f.pc = "update_media"
        /\ deleteFile(f.doc.media)
        /\ inflight' = [inflight EXCEPT ![s].pc = "update_write"]
        /\ UNCHANGED <<mediaFailed, accounts, now, issued, tokenBlacklist, users, blogs,
                       nextBlog, storeFailed>>

UpdateDeleteMediaFailsSurfaced(s) ==
    LET f == inflight[s]
    IN  /\ f.pc = "update_media"
        /\ f.doc.media # NoMedia /\ ~startsWithLocal(f.doc.media)
        /\ deleteFile(f.doc.media)
        /\ mediaFailed' = TRUE
        /\ inflight' = Put(s, Done(f.req, "handler", 500, f.user, NoData))
        /\ UNCHANGED <<accounts, now, issued, tokenBlacklist, users, blogs, nextBlog, storeFailed>>

\* await deleteFile(blog.media.public_id) where cloudinary.uploader.destroy
\* throws: the inner catch logs the error and the handler goes on to the write.
UpdateDeleteMediaFails(s) ==
    LET f == inflight[s]
    IN  /\ f.pc = "update_media"
        /\ f.doc.media # NoMedia /\ ~startsWithLocal(f.doc.media)
        /\ deleteFile(f.doc.media)
        /\ mediaFailed' = TRUE
        /\ inflight' = [inflight EXCEPT ![s].pc = "update_write"]
        /\ UNCHANGED <<accounts, now, issued, tokenBlacklist, users, blogs, nextBlog, storeFailed>>

\* Blog.findByIdAndUpdate(req.params.id, filteredUpdates, { new: true }): null when
\* the post is gone, and the handler answers 200 either way.
UpdateWrite(s) ==
    LET f == inflight[s]
        id == f.req.target
    IN  /\ f.pc = "update_write"
        /\ IF Exists(id)
           THEN /\ blogs' = [blogs EXCEPT ![id] = ApplyUpdates(@, f.upd)]
                /\ inflight' = Put(s, Done(f.req, "handler", 200, f.user,
                                           [NoData EXCEPT !.blog = ApplyUpdates(blogs[id], f.upd)]))
           ELSE /\ inflight' = Put(s, Done(f.req, "handler", 200, f.user, NoData))
                /\ UNCHANGED blogs
        /\ UNCHANGED <<mediaFailed, accounts, now, issued, tokenBlacklist, users, nextBlog,
                       cloud, storeFailed>>

\* ------------------------------------------------ DELETE /blogs/:id
DeleteBegin(s, hdr, id) ==
    LET req == Req("delete", hdr, id, NoBody)
        a == auth(hdr)
        blog == blogs[id]
    IN  /\ FreeSlot(s)
        /\ Len(cloud) < MaxCloud
        /\ inflight' = Put(s,
              IF ~a.ok THEN Done(req, "auth", a.code, NoUser, NoData)
              ELSE IF ~Exists(id) THEN Done(req, "handler", 404, a.user, NoData)
              ELSE IF ~IsOwner(blog, a.user) THEN Done(req, "handler", 403, a.user, NoData)
              ELSE [pc |-> IF blog.media # NoMedia THEN "delete_media" ELSE "delete_remove",
                    req |-> req, user |-> a.user, doc |-> blog])
        /\ UNCHANGED <<mediaFailed, accounts, now, issued, tokenBlacklist, users, blogs,
                       nextBlog, cloud, storeFailed>>

DeleteMedia(s) ==
    LET f == inflight[s]
    IN  /\ f.pc = "delete_media"
        /\ deleteFile(f.doc.media)
        /\ inflight' = [inflight EXCEPT ![s].pc = "delete_remove"]
        /\ UNCHANGED <<mediaFailed, accounts, now, issued, tokenBlacklist, users, blogs,
                       nextBlog, storeFailed>>

\* await deleteFile(blog.media.public_id) where cloudinary.uploader.destroy
\* throws: the inner catch logs the error and the handler goes on to the removal.
DeleteMediaFails(s) ==
    LET f == inflight[s]
    IN  /\ f.pc = "delete_media"
        /\ f.doc.media # NoMedia /\ ~startsWithLocal(f.doc.media)
        /\ deleteFile(f.doc.media)
        /\ mediaFailed' = TRUE
        /\ inflight' = [inflight EXCEPT ![s].pc = "delete_remove"]
        /\ UNCHANGED <<accounts, now, issued, tokenBlacklist, users, blogs, nextBlog, storeFailed>>

\* await Blog.findByIdAndDelete(req.params.id)
DeleteRemove(s) ==
    LET f == inflight[s]
    IN  /\ f.pc = "delete_remove"
        /\ blogs' = [blogs EXCEPT ![f.req.target] = NoBlog]
        /\ inflight' = Put(s, Done(f.req, "handler", 200, f.user, NoData))
        /\ UNCHANGED <<mediaFailed, accounts, now, issued, tokenBlacklist, users, nextBlog,
                       cloud, storeFailed>>

\* ------------------------------------------------ POST /blogs/:id/like
\* BlogSchema.methods.toggleLike, on the loaded document: the array after the
\* toggle and the operation save() will send.
toggleLike(likes, userId) ==
    LET likeIndex == IndexOf(likes, userId)
    IN  IF likeIndex > 0
        THEN [likes |-> Splice(likes, likeIndex), op |-> "set"]
        ELSE [likes |-> Append(likes, userId), op |-> "push"]

\* auth, findById, the status check and the in-memory toggle
LikeBegin(s, hdr, id) ==
    LET req == Req("like", hdr, id, NoBody)
        a == auth(hdr)
        blog == blogs[id]
    IN  /\ FreeSlot(s)
        /\ Exists(id) => (Includes(blog.likes, a.user) \/ Len(blog.likes) < MaxList)
        /\ inflight' = Put(s,
              IF ~a.ok THEN Done(req, "auth", a.code, NoUser, NoData)
              ELSE IF ~Exists(id) THEN Done(req, "handler", 404, a.user, NoData)
              ELSE IF blog.status # "published" THEN Done(req, "handler", 404, a.user, NoData)
              ELSE [pc |-> "like_save", req |-> req, user |-> a.user,
                    loaded |-> blog.likes, toggled |-> toggleLike(blog.likes, a.user),
                    stale |-> FALSE])
        /\ UNCHANGED <<mediaFailed, accounts, now, issued, tokenBlacklist, users, blogs,
                       nextBlog, cloud, storeFailed>>

\* this.save(), then res.json({ isLiked: blog.likes.includes(req.user._id),
\* likeCount: blog.likes.length }) from the document in memory
LikeSave(s) ==
    LET f == inflight[s]
        id == f.req.target
        answer == Done(f.req, "handler", 200, f.user,
                       [NoData EXCEPT !.liked = Includes(f.toggled.likes, f.user),
                                      !.count = Len(f.toggled.likes),
                                      !.before = f.loaded,
                                      !.after = f.toggled.likes])
    IN  /\ f.pc = "like_save"
        /\ IF ~Exists(id) \/ (f.toggled.op = "set" /\ f.stale)
           THEN /\ inflight' = Put(s, Done(f.req, "handler", 500, f.user, NoData))
                /\ storeFailed' = TRUE
                /\ UNCHANGED blogs
           ELSE /\ blogs' = [blogs EXCEPT ![id].likes =
                                IF f.toggled.op = "push" THEN Append(@, f.user)
                                ELSE f.toggled.likes]
                /\ inflight' = [MarkBlog(inflight, id) EXCEPT ![s] = answer]
                /\ UNCHANGED storeFailed
        /\ UNCHANGED <<mediaFailed, accounts, now, issued, tokenBlacklist, users, nextBlog, cloud>>

\* ------------------------------------------------ POST /blogs/:id/comments
\* auth, findById and the status check
CommentBegin(s, hdr, id) ==
    LET req == Req("comment", hdr, id, NoBody)
        a == auth(hdr)
        blog == blogs[id]
    IN  /\ FreeSlot(s)
        /\ Exists(id) => Len(blog.comments) < MaxList
        /\ inflight' = Put(s,
              IF ~a.ok THEN Done(req, "auth", a.code, NoUser, NoData)
              ELSE IF ~Exists(id) THEN Done(req, "handler", 404, a.user, NoData)
              ELSE IF blog.status # "published" THEN Done(req, "handler", 404, a.user, NoData)
              ELSE [pc |-> "comment_save", req |-> req, user |-> a.user])
        /\ UNCHANGED <<mediaFailed, accounts, now, issued, tokenBlacklist, users, blogs,
                       nextBlog, cloud, storeFailed>>

\* blog.comments.push(comment); await blog.save()
CommentSave(s) ==
    LET f == inflight[s]
        id == f.req.target
    IN  /\ f.pc = "comment_save"
        /\ IF ~Exists(id)
           THEN /\ inflight' = Put(s, Done(f.req, "handler", 500, f.user, NoData))
                /\ storeFailed' = TRUE
                /\ UNCHANGED blogs
           ELSE /\ blogs' = [blogs EXCEPT ![id].comments = Append(@, f.user)]
                /\ inflight' = [MarkBlog(inflight, id) EXCEPT
                                   ![s] = Done(f.req, "handler", 201, f.user, NoData)]
                /\ UNCHANGED storeFailed
        /\ UNCHANGED <<mediaFailed, accounts, now, issued, tokenBlacklist, users, nextBlog, cloud>>

\* ------------------------------------------------ DELETE /media/:public_id
MediaDelete(s, hdr, public_id) ==
    LET req == Req("media_delete", hdr, public_id, NoBody)
        a == auth(hdr)
    IN  /\ FreeSlot(s)
        /\ Len(cloud) < MaxCloud
        /\ IF ~a.ok
           THEN /\ inflight' = Put(s, Done(req, "auth", a.code, NoUser, NoData))
                /\ UNCHANGED cloud
           ELSE /\ deleteFile(public_id)
                /\ inflight' = Put(s, Done(req, "handler", 200, a.user, NoData))
        /\ UNCHANGED <<mediaFailed, accounts, now, issued, tokenBlacklist, users, blogs,
                       nextBlog, storeFailed>>

\* ------------------------------------------------ POST /signup
Names == 1 .. NumUsers + NumFresh
Account(username, email) == [username |-> username, email |-> email]

\* User.findOne({ $or: [{ email }, { username }] })
findOne(body) ==
    \E i \in DOMAIN accounts :
        accounts[i].email = body.email \/ accounts[i].username = body.username

\* The identity store keeps handle and email unique: a write that would give
\* two identities the same value of one of them is refused.
UniqueFields(body) ==
    \A i \in DOMAIN accounts :
        accounts[i].email # body.email /\ accounts[i].username # body.username

\* The validators (the body is well-formed) and the lookup of an identity with
\* the email or the username; no avatar file is sent.
SignupBegin(s, body) ==
    LET req == Req("signup", NoHeader, NoId, body)
    IN  /\ FreeSlot(s)
        /\ inflight' = Put(s,
              IF findOne(body) THEN Done(req, "handler", 400, NoUser, NoData)
              ELSE [pc |-> "signup_save", req |-> req, user |-> NoUser])
        /\ UNCHANGED <<mediaFailed, accounts, now, issued, tokenBlacklist, users, blogs, nextBlog,
                       cloud, storeFailed>>

\* await user.save(): a refused write is caught by the handler's catch (500)
SignupSave(s) ==
    LET f == inflight[s]
    IN  /\ f.pc = "signup_save"
        /\ IF UniqueFields(f.req.body)
           THEN /\ accounts' = Append(accounts, f.req.body)
                /\ inflight' = Put(s, Done(f.req, "handler", 201, NoUser, NoData))
                /\ UNCHANGED storeFailed
           ELSE /\ inflight' = Put(s, Done(f.req, "handler", 500, NoUser, NoData))
                /\ storeFailed' = TRUE
                /\ UNCHANGED accounts
        /\ UNCHANGED <<mediaFailed, now, issued, tokenBlacklist, users, blogs, nextBlog, cloud>>

\* ---------------------------------------------------------------- specifications
Statuses == {"absent", "draft", "published", "archived"}
MediaFields == {NoField} \cup MediaIds
Bodies == {Post(st, m) : st \in Statuses, m \in MediaFields}

\* A body that also names keys outside the allow-list.
Forge(body, u) ==
    [status |-> body.status, media |-> body.media, content |-> body.content,
     tags |-> body.tags,
     author |-> u, views |-> MaxViews, likes |-> <<u>>, comments |-> <<u>>, readTime |-> 1]
Patches ==
    {Post(st, NoField) : st \in {"absent", "draft", "published"}}
    \cup {Forge(Post(st, NoField), u) : st \in {"absent", "published"}, u \in UserIds}
\* The lowest slot; also the lowest identity, post and media identifier.
First == CHOOSE i \in Slots : \A j \in Slots : i <= j

\* The session pipeline in front of every route that demands a session: one
\* client, holding every kind of credential, one request at a time.
Credentials ==
    {NoHeader, Bearer(Forged)}
        \cup {Bearer(t) : t \in {x \in issued : x.userId = First}}
        \cup {Raw(t) : t \in {x \in issued : x.userId = First}}

NextAuth ==
    \/ Tick
    \/ Login(First, First)
    \/ \E h \in Credentials : Logout(First, h)
    \/ \E h \in Credentials, t \in Targets : FollowBegin(First, h, t)
    \/ FollowSaveCurrent(First)
    \/ FollowSaveTarget(First)
    \/ \E h \in Credentials, t \in Targets : UnfollowBegin(First, h, t)
    \/ UnfollowLoad(First)
    \/ UnfollowSaveCurrent(First)
    \/ UnfollowSaveTarget(First)
    \/ \E h \in Credentials : CreateBlog(First, h, Post("published", First)) /\ nextBlog = First
    \/ \E h \in Credentials : UpdateBegin(First, h, First, Post("draft", First))
    \/ UpdateDeleteMedia(First)
    \/ UpdateWrite(First)
    \/ \E h \in Credentials : DeleteBegin(First, h, First)
    \/ DeleteMedia(First)
    \/ DeleteRemove(First)
    \/ \E h \in Credentials : LikeBegin(First, h, First)
    \/ LikeSave(First)
    \/ \E h \in Credentials : CommentBegin(First, h, First)
    \/ CommentSave(First)
    \/ \E h \in Credentials : MediaDelete(First, h, First)
    \/ Receive(First)

SpecAuth == Init /\ [][NextAuth]_vars

\* The content routes on one post, one request at a time, every identity
\* taking part.
Clients == Held \cup {NoHeader}
Page1 == Query("newest", 1, 10)

NextBlog ==
    \/ TickInSession
    \/ \E h \in Held : Logout(First, h)
    \/ \E h \in Clients, body \in Bodies : CreateBlog(First, h, body) /\ nextBlog = First
    \/ \E h \in Clients, body \in Bodies : UpdateBegin(First, h, First, body)
    \/ UpdateDeleteMedia(First)
    \/ UpdateWrite(First)
    \/ \E h \in Clients : DeleteBegin(First, h, First)
    \/ DeleteMedia(First)
    \/ DeleteRemove(First)
    \/ \E h \in Clients : GetBegin(First, h, First)
    \/ incrementViews(First)
    \/ \E h \in Clients : ListBlogs(First, h, Page1)
    \/ \E u \in UserIds : ListUserBlogs(First, u, Page1)
    \/ Receive(First)

SpecBlog == Init /\ [][NextBlog]_vars

\* Updates of the status of one post, processed concurrently.
NextPublish ==
    \/ TickInSession
    \/ \E s \in Slots, h \in Held : CreateBlog(s, h, Post("draft", NoField)) /\ nextBlog = First
    \/ \E s \in Slots, h \in Held, st \in {"draft", "published"} :
          UpdateBegin(s, h, First, Post(st, NoField))
    \/ \E s \in Slots : UpdateWrite(s)
    \/ \E s \in Slots : Receive(s)

SpecPublish == Init /\ [][NextPublish]_vars

\* Likes and views of one published post, processed concurrently.
NextLike ==
    \/ \E s \in Slots, h \in Held : CreateBlog(s, h, Post("published", NoField)) /\ nextBlog = First
    \/ \E s \in Slots, h \in Clients : LikeBegin(s, h, First)
    \/ \E s \in Slots : LikeSave(s)
    \/ \E s \in Slots, h \in Clients : GetBegin(s, h, First)
    \/ \E s \in Slots : incrementViews(s)
    \/ \E s \in Slots : Receive(s)

SpecLike == Init /\ [][NextLike]_vars

\* Follow and unfollow, one request at a time.
NextSocial ==
    \/ \E h \in Clients, t \in Targets : FollowBegin(First, h, t)
    \/ FollowSaveCurrent(First)
    \/ FollowSaveTarget(First)
    \/ \E h \in Clients, t \in Targets : UnfollowBegin(First, h, t)
    \/ UnfollowLoad(First)
    \/ UnfollowSaveCurrent(First)
    \/ UnfollowSaveTarget(First)
    \/ Receive(First)

SpecSocial == Init /\ [][NextSocial]_vars

\* Follow and unfollow, processed concurrently.
NextFollow ==
    \/ \E s \in Slots, h \in Clients, t \in Targets : FollowBegin(s, h, t)
    \/ \E s \in Slots : FollowSaveCurrent(s)
    \/ \E s \in Slots : FollowSaveTarget(s)
    \/ \E s \in Slots, h \in Clients, t \in Targets : UnfollowBegin(s, h, t)
    \/ \E s \in Slots : UnfollowLoad(s)
    \/ \E s \in Slots : UnfollowSaveCurrent(s)
    \/ \E s \in Slots : UnfollowSaveTarget(s)
    \/ \E s \in Slots : Receive(s)

SpecFollow == Init /\ [][NextFollow]_vars

\* Comments on one post while its author changes its status, processed
\* concurrently.
NextComment ==
    \/ \E s \in Slots, h \in Held :
          CreateBlog(s, h, Post("published", NoField)) /\ nextBlog = First
    \/ \E s \in Slots, h \in Clients : CommentBegin(s, h, First)
    \/ \E s \in Slots : CommentSave(s)
    \/ \E s \in Slots, h \in Held, st \in {"draft", "published"} :
          UpdateBegin(s, h, First, Post(st, NoField))
    \/ \E s \in Slots : UpdateWrite(s)
    \/ \E s \in Slots : Receive(s)

SpecComment == Init /\ [][NextComment]_vars

\* The author writes and rewrites one post, one request at a time: texts around
\* the read-time boundaries with and without surrounding whitespace, and every
\* kind of tags array.
Lengths == {1, WordsPerMinute - 1, WordsPerMinute, 2 * WordsPerMinute}
Texts ==
    {NoContent, Text(FALSE, 0, FALSE)}
        \cup {Text(l, w, t) : l \in BOOLEAN, w \in Lengths, t \in BOOLEAN}
TagArrays == {"absent", "ok", "emptyTag", "tooMany"}
Articles ==
    {[Post("published", m) EXCEPT !.content = c, !.tags = g] :
        m \in MediaFields, c \in Texts, g \in TagArrays}

NextArticle ==
    \/ \E h \in Held, body \in Articles : CreateBlog(First, h, body) /\ nextBlog = First
    \/ \E h \in Held, body \in Articles : UpdateBegin(First, h, First, body)
    \/ UpdateDeleteMedia(First)
    \/ UpdateWrite(First)
    \/ Receive(First)

SpecArticle == Init /\ [][NextArticle]_vars

\* Listings of the published posts while posts are published, processed
\* concurrently: every sort key, pages and page sizes in and out of range.
Sorts == {"newest", "oldest", "popular", "trending"}
Pages == 0 .. NumBlogs
Limits == (0 .. NumBlogs) \cup {101}
Queries == {Query(so, p, l) : so \in Sorts, p \in Pages, l \in Limits}

NextList ==
    \/ TickInSession
    \/ \E s \in Slots, h \in Held : CreateBlog(s, h, Post("published", NoField))
    \/ \E s \in Slots, q \in Queries : ListBlogs(s, NoHeader, q)
    \/ \E s \in Slots : Receive(s)

SpecList == Init /\ [][NextList]_vars

\* Posts with every kind of primary media are created and deleted, one request
\* at a time.
NextDelete ==
    \/ \E h \in Held, m \in MediaFields \cup {LocalMedia} :
          CreateBlog(First, h, Post("published", m))
    \/ \E h \in Clients, b \in BlogIds : DeleteBegin(First, h, b)
    \/ DeleteMedia(First)
    \/ DeleteRemove(First)
    \/ Receive(First)

SpecDelete == Init /\ [][NextDelete]_vars

\* Signups, processed concurrently.
NextSignup ==
    \/ \E s \in Slots, u \in Names, e \in Names : SignupBegin(s, Account(u, e))
    \/ \E s \in Slots : SignupSave(s)
    \/ \E s \in Slots : Receive(s)

SpecSignup == Init /\ [][NextSignup]_vars

\* Follow and unfollow, one request at a time, where the second save of a
\* follow may fail.
NextFollowFault ==
    \/ \E h \in Clients, t \in Targets : FollowBegin(First, h, t)
    \/ FollowSaveCurrent(First)
    \/ FollowSaveTarget(First)
    \/ FollowSaveTargetFails(First)
    \/ \E h \in Clients, t \in Targets : UnfollowBegin(First, h, t)
    \/ UnfollowLoad(First)
    \/ UnfollowSaveCurrent(First)
    \/ UnfollowSaveTarget(First)
    \/ Receive(First)

SpecFollowFault == Init /\ [][NextFollowFault]_vars

\* Creation of one post with any status and updates of its status, processed
\* concurrently.
NextStatus ==
    \/ TickInSession
    \/ \E s \in Slots, h \in Held, st \in Statuses :
          CreateBlog(s, h, Post(st, NoField)) /\ nextBlog = First
    \/ \E s \in Slots, h \in Held, st \in Statuses :
          UpdateBegin(s, h, First, Post(st, NoField))
    \/ \E s \in Slots : UpdateWrite(s)
    \/ \E s \in Slots : Receive(s)

SpecStatus == Init /\ [][NextStatus]_vars

\* Posts with primary media are created, updated and deleted, one request at a
\* time, and a call to the media store may throw.
NextMediaFault ==
    \/ \E h \in Held, m \in MediaFields : CreateBlog(First, h, Post("published", m))
    \/ \E h \in Held, b \in BlogIds, m \in MediaFields :
          UpdateBegin(First, h, b, Post("absent", m))
    \/ UpdateDeleteMedia(First)
    \/ UpdateDeleteMediaFails(First)
    \/ UpdateWrite(First)
    \/ \E h \in Held, b \in BlogIds : DeleteBegin(First, h, b)
    \/ DeleteMedia(First)
    \/ DeleteMediaFails(First)
    \/ DeleteRemove(First)
    \/ Receive(First)

SpecMediaFault == Init /\ [][NextMediaFault]_vars

\* One post is created, liked, commented on and updated with patches that name
\* keys outside the allow-list, one request at a time.
NextPatch ==
    \/ \E h \in Held, u \in UserIds :
          CreateBlog(First, h, Forge(Post("published", NoField), u)) /\ nextBlog = First
    \/ \E h \in Held : LikeBegin(First, h, First)
    \/ LikeSave(First)
    \/ \E h \in Held : CommentBegin(First, h, First)
    \/ CommentSave(First)
    \/ \E h \in Held, body \in Patches : UpdateBegin(First, h, First, body)
    \/ UpdateWrite(First)
    \/ Receive(First)

SpecPatch == Init /\ [][NextPatch]_vars

\* Every route that calls the media store: posts with primary media are
\* created, updated and deleted, and DELETE /media/:public_id is called, one
\* request at a time.
NextMedia ==
    \/ \E h \in Held, m \in MediaFields : CreateBlog(First, h, Post("published", m))
    \/ \E h \in Held, b \in BlogIds, m \in MediaFields :
          UpdateBegin(First, h, b, Post("absent", m))
    \/ UpdateDeleteMedia(First)
    \/ UpdateWrite(First)
    \/ \E h \in Held, b \in BlogIds : DeleteBegin(First, h, b)
    \/ DeleteMedia(First)
    \/ DeleteRemove(First)
    \/ \E h \in Clients, m \in MediaIds : MediaDelete(First, h, m)
    \/ Receive(First)

SpecMedia == Init /\ [][NextMedia]_vars

\* Sessions: every identity logs in and out with every kind of header while the
\* clock advances, and posts are created, one request at a time.
NextSession ==
    \/ Tick
    \/ \E u \in UserIds : Login(First, u)
    \/ \E h \in Headers : Logout(First, h)
    \/ \E h \in Headers : CreateBlog(First, h, Post("published", NoField))
    \/ Receive(First)

SpecSession == Init /\ [][NextSession]_vars

\* ---------------------------------------------------------------- properties
\* A request arrives in slot s: the step takes the slot from idle to the frame
\* (or the immediate response) of the request.
Arrives(s) == inflight[s] = Idle /\ inflight'[s] # Idle

\* authenticate / auth in front of the handler
MandatoryRoutes == {"logout", "follow", "unfollow", "create", "update", "delete",
                    "like", "comment", "media_delete"}
OptionalRoutes == {"get", "list"}

Refused401(f) == f.pc = "done" /\ f.stage = "auth" /\ f.code = 401

\* C1: a request that presents a token of the revocation set to a route with
\* mandatory verification is answered 401 by the middleware, before the handler
\* and without any change of state; and no step removes a token from the
\* revocation set.
C1_RevokedTokenRefused ==
    [][/\ tokenBlacklist \subseteq tokenBlacklist'
       /\ \A s \in Slots :
             (/\ Arrives(s)
              /\ inflight'[s].req.route \in MandatoryRoutes
              /\ inflight'[s].req.hdr.token \in tokenBlacklist)
             => /\ Refused401(inflight'[s])
                /\ UNCHANGED <<tokenBlacklist, users, blogs, nextBlog, cloud>>]_vars

\* A token that still verifies was presented after its logout and refused.
C1_Witness ==
    \E s \in Slots :
        /\ Refused401(inflight[s])
        /\ inflight[s].req.route = "follow"
        /\ inflight[s].req.hdr.scheme = "bearer"
        /\ inflight[s].req.hdr.token \in tokenBlacklist
        /\ jwtVerify(inflight[s].req.hdr.token) = "ok"

\* C2: on a route with optional verification a token of the revocation set is
\* not resolved to an identity: the request is handled as unauthenticated, and
\* a post that is not published is not shown to it.
C2_RevokedTokenAnonymous ==
    [][\A s \in Slots :
          (/\ Arrives(s)
           /\ inflight'[s].req.route \in OptionalRoutes
           /\ inflight'[s].req.hdr.token \in tokenBlacklist)
          => /\ inflight'[s].user = NoUser
             /\ (/\ inflight'[s].req.route = "get"
                 /\ Exists(inflight'[s].req.target)
                 /\ blogs[inflight'[s].req.target].status # "published")
                => inflight'[s].code = 404]_vars

\* No Bearer token, a token that does not verify, or a token that has reached
\* its expiry of 7 days.
NoSession(hdr) ==
    \/ hdr.scheme # "bearer"
    \/ ~hdr.token.good
    \/ now >= hdr.token.iat + ExpiresIn

ByNonAuthor(f) ==
    /\ f.req.route \in {"update", "delete"}
    /\ auth(f.req.hdr).ok
    /\ Exists(f.req.target)
    /\ blogs[f.req.target].author # auth(f.req.hdr).user

\* C4 (as stated): PUT and DELETE of a post by an authenticated identity that is
\* not its author are answered 403, the post is left as it is and no delete
\* call goes to the media store.
C4_NonAuthorForbidden ==
    [][\A s \in Slots :
          (Arrives(s) /\ ByNonAuthor(inflight'[s]))
          => /\ inflight'[s].pc = "done"
             /\ inflight'[s].code = 403
             /\ UNCHANGED <<blogs, cloud>>]_vars

\* C4 (amended): PUT and DELETE of a post by an authenticated identity that is
\* not its author are answered at once, the post is left as it is and no delete
\* call goes to the media store; the answer is 403, except that a PUT whose body
\* fails validation is answered 400.
C4_NonAuthorRefused ==
    [][\A s \in Slots :
          (Arrives(s) /\ ByNonAuthor(inflight'[s]))
          => /\ inflight'[s].pc = "done"
             /\ inflight'[s].code =
                   IF /\ inflight'[s].req.route = "update"
                      /\ ~ValidUpdate(inflight'[s].req.body)
                   THEN 400 ELSE 403
             /\ UNCHANGED <<blogs, cloud>>]_vars

\* An update with a valid body that names new media, of a post that has media,
\* was answered 403 to an identity that is not the author.
C4_Witness ==
    \E s \in Slots :
        /\ inflight[s].pc = "done"
        /\ inflight[s].req.route = "update"
        /\ inflight[s].code = 403
        /\ inflight[s].req.body.media # NoField
        /\ Exists(inflight[s].req.target)
        /\ blogs[inflight[s].req.target].media # NoMedia
        /\ inflight[s].user \in UserIds
        /\ inflight[s].user # blogs[inflight[s].req.target].author

\* C5: GET /blogs/:id of a post that is not published answers 404 to a request
\* without a token and to a request with the token of an identity other than
\* the author, and answers 200 only to a verified token of the author; the
\* listings contain published posts only; GET /blogs/:id of a published post
\* answers 200 with the post to every viewer.
C5_Visibility ==
    [][\A s \in Slots :
          /\ (Arrives(s) /\ inflight'[s].req.route = "get" /\ Exists(inflight'[s].req.target))
             => LET f == inflight'[s]
                    blog == blogs[f.req.target]
                IN  IF blog.status = "published"
                    THEN \/ f.pc = "get_save"
                         \/ f.pc = "done" /\ f.code = 200 /\ f.data.blog = blog
                    ELSE /\ f.pc = "done"
                         /\ (f.req.hdr.scheme = "none" \/ f.req.hdr.token.userId # blog.author)
                            => f.code = 404
                         /\ f.code # 404
                            => /\ f.code = 200
                               /\ f.data.blog = blog
                               /\ f.req.hdr.token.good
                               /\ f.req.hdr.token.userId = blog.author
          /\ (inflight[s].pc = "get_save" /\ inflight'[s].pc = "done")
             => /\ inflight'[s].code = 200
                /\ inflight'[s].data.blog.status = "published"
          /\ (Arrives(s) /\ inflight'[s].req.route \in {"list", "list_user"})
             => /\ inflight'[s].code = 200
                /\ SeqToSet(inflight'[s].data.ids) \subseteq Published]_vars

\* A draft was asked for with the valid token of an identity that is not its
\* author, and the answer was 404.
C5_Witness ==
    \E s \in Slots :
        /\ inflight[s].pc = "done"
        /\ inflight[s].req.route = "get"
        /\ inflight[s].code = 404
        /\ Exists(inflight[s].req.target)
        /\ blogs[inflight[s].req.target].status = "draft"
        /\ inflight[s].user \in UserIds
        /\ inflight[s].user # blogs[inflight[s].req.target].author

\* C6: a step that takes a post from draft to published leaves publishedAt
\* non-null, and a step that leaves a published post published (an update that
\* sets status to published again) does not change publishedAt, whatever the
\* interleaving of the update requests.
C6_PublishedAtSetOnce ==
    [][\A b \in BlogIds :
          (Exists(b) /\ blogs'[b] # NoBlog)
          => /\ (blogs[b].status = "draft" /\ blogs'[b].status = "published")
                => blogs'[b].publishedAt # Null
             /\ (blogs[b].status = "published" /\ blogs'[b].status = "published")
                => blogs'[b].publishedAt = blogs[b].publishedAt]_vars

\* C7: follow(a, b) with a = b, or with b already in a.following, is answered
\* 400 and changes no list; otherwise the request appends b to a.following,
\* then a to b.followers, and is answered 200 with both in place.  No identity
\* is in its own following or followers list.
C7_Follow ==
    [][/\ \A s \in Slots :
             LET f == inflight'[s]
                 a == f.user
                 b == f.req.target
             IN  /\ (/\ Arrives(s)
                     /\ f.req.route = "follow"
                     /\ auth(f.req.hdr).ok
                     /\ b \in UserIds)
                    => IF \/ auth(f.req.hdr).user = b
                          \/ Includes(users[auth(f.req.hdr).user].following, b)
                       THEN f.pc = "done" /\ f.code = 400 /\ UNCHANGED users
                       ELSE f.pc = "follow_save1" /\ a = auth(f.req.hdr).user
                 /\ (inflight[s].pc = "follow_save1" /\ f # inflight[s])
                    => /\ f.pc = "follow_save2"
                       /\ users' = [users EXCEPT ![a].following = Append(@, b)]
                 /\ (inflight[s].pc = "follow_save2" /\ f # inflight[s])
                    => /\ f.pc = "done" /\ f.code = 200
                       /\ users' = [users EXCEPT ![b].followers = Append(@, a)]
                       /\ Includes(users'[a].following, b)
                       /\ Includes(users'[b].followers, a)
       /\ \A u \in UserIds :
             /\ ~Includes(users'[u].following, u)
             /\ ~Includes(users'[u].followers, u)]_vars

\* A second follow of the same identity was answered 400.
C7_Witness ==
    \E s \in Slots :
        /\ inflight[s].pc = "done"
        /\ inflight[s].req.route = "follow"
        /\ inflight[s].code = 400
        /\ inflight[s].user # inflight[s].req.target
        /\ Includes(users[inflight[s].user].following, inflight[s].req.target)
        /\ Includes(users[inflight[s].req.target].followers, inflight[s].user)

InProgress(f) == f.pc \notin {"idle", "done"}

\* C8: in every state where no follow or unfollow request is in progress and no
\* store write has failed, b is in a.following exactly when a is in
\* b.followers.
C8_ListsConsistent ==
    ((\A s \in Slots : ~InProgress(inflight[s])) /\ ~storeFailed)
    => \A a, b \in UserIds :
          Includes(users[a].following, b) <=> Includes(users[b].followers, a)

\* The answer to a like request of identity u on post b.
Liked(f, u, b) ==
    /\ f.pc = "done"
    /\ f.req.route = "like"
    /\ f.code = 200
    /\ f.user = u
    /\ f.req.target = b

\* C9: when a like request of an identity found the likes exactly as that
\* identity's previous like request had left them, the second request leaves the
\* like set and the like count as they were before the first; and each answer
\* reports the membership and the count after its toggle.
C9_ToggleInvolution ==
    \A s, t \in Slots : \A u \in UserIds : \A b \in BlogIds :
        (/\ s # t
         /\ Liked(inflight[s], u, b)
         /\ Liked(inflight[t], u, b)
         /\ inflight[t].data.before = inflight[s].data.after)
        => /\ SeqToSet(inflight[t].data.after) = SeqToSet(inflight[s].data.before)
           /\ Len(inflight[t].data.after) = Len(inflight[s].data.before)
           /\ inflight[t].data.liked = (u \in SeqToSet(inflight[t].data.after))
           /\ inflight[t].data.count = Len(inflight[t].data.after)

\* C10: every GET /blogs/:id of a published post by a viewer other than its
\* author that is answered 200 leaves the stored view count one higher than it
\* was before the answer, and a GET by the author leaves it as it is, whatever
\* the interleaving of the requests.
C10_ViewsCountRequests ==
    [][\A s \in Slots :
          /\ (/\ inflight[s].pc = "get_save"
              /\ inflight'[s].pc = "done"
              /\ inflight'[s].code = 200)
             => blogs'[inflight[s].req.target].views = blogs[inflight[s].req.target].views + 1
          /\ (/\ Arrives(s)
              /\ inflight'[s].req.route = "get"
              /\ inflight'[s].pc = "done")
             => UNCHANGED blogs]_vars

\* C11: a comment request on an existing post that is not published is answered
\* 404 and changes nothing; the write of a comment appends exactly one comment
\* of the requesting identity at the end of the list, and the post it is
\* appended to is published at the moment of the write.
C11_CommentOnPublishedOnly ==
    [][\A s \in Slots :
          /\ (/\ Arrives(s)
              /\ inflight'[s].req.route = "comment"
              /\ auth(inflight'[s].req.hdr).ok
              /\ Exists(inflight'[s].req.target)
              /\ blogs[inflight'[s].req.target].status # "published")
             => /\ inflight'[s].pc = "done"
                /\ inflight'[s].code = 404
                /\ UNCHANGED blogs
          /\ (/\ inflight[s].pc = "comment_save"
              /\ inflight'[s].pc = "done"
              /\ inflight'[s].code = 201)
             => LET b == inflight[s].req.target
                IN  /\ blogs'[b].comments = Append(blogs[b].comments, inflight[s].user)
                    /\ blogs[b].status = "published"]_vars

\* C12: the stored readTime of every post is max(1, ceil(w / 200)), w being the
\* number of words of the stored body, whatever whitespace surrounds the words.
C12_ReadTime ==
    \A b \in BlogIds :
        Exists(b) =>
            LET w == blogs[b].content.words
            IN  blogs[b].readTime = Max(1, (w + WordsPerMinute - 1) \div WordsPerMinute)

\* A rule of create that the body of an update breaks on a key it carries.
BreaksCreateRule(body) ==
    \/ ~ValidStatus(body.status)
    \/ body.content # NoContent /\ ~ValidContent(body.content)
    \/ body.tags \notin {"absent", "ok"}

\* C15: an update by the author whose body breaks a rule of create on a key it
\* carries is answered 400 by the validation, with no change of the post and no
\* delete call to the media store.
C15_UpdateValidatesLikeCreate ==
    [][\A s \in Slots :
          (/\ Arrives(s)
           /\ inflight'[s].req.route = "update"
           /\ auth(inflight'[s].req.hdr).ok
           /\ Exists(inflight'[s].req.target)
           /\ blogs[inflight'[s].req.target].author = auth(inflight'[s].req.hdr).user
           /\ BreaksCreateRule(inflight'[s].req.body))
          => /\ inflight'[s].pc = "done"
             /\ inflight'[s].code = 400
             /\ UNCHANGED <<blogs, cloud>>]_vars

\* C13: GET /blogs with page p and page size s, clamped into p >= 1 and
\* 1 <= s <= 100, answers with the items at positions (p-1)*s+1 .. min(p*s, N)
\* of a sorted order of the N published posts, and with
\* totalPages = ceil(N / s) for the clamped s.
C13_Pagination ==
    [][\A t \in Slots :
          (Arrives(t) /\ inflight'[t].req.route = "list")
          => LET f == inflight'[t]
                 p == Max(1, f.req.body.page)
                 s == Min(100, Max(1, f.req.body.limit))
                 N == Cardinality(Published)
             IN  /\ f.code = 200
                 /\ f.data.total = N
                 /\ \E q \in Sorted(Published, f.req.body.sort) :
                       f.data.ids = SubSeq(q, (p - 1) * s + 1, Min(p * s, N))
                 /\ f.data.totalPages = Number((N + s - 1) \div s)]_vars

\* C17: two answers to GET /blogs with the same parameters and no write to the
\* store in between (the store of this specification only grows, so the same
\* total means the same store) carry the same sequence of posts and the same
\* total.
C17_ListingDeterministic ==
    \A s, t \in Slots :
        (/\ inflight[s].pc = "done" /\ inflight[s].req.route = "list"
         /\ inflight[t].pc = "done" /\ inflight[t].req.route = "list"
         /\ inflight[s].req.body = inflight[t].req.body
         /\ inflight[s].data.total = Cardinality(Published)
         /\ inflight[t].data.total = Cardinality(Published))
        => inflight[s].data.ids = inflight[t].data.ids

\* C14 (as stated): a delete request that goes on to remove a post whose primary
\* media has a non-empty identifier issues, before the post is removed, exactly
\* one delete call to the media store, with that identifier.
C14_DeleteCallsMediaStoreAlways ==
    [][\A s \in Slots :
          LET f == inflight[s]
              g == inflight'[s]
          IN  /\ (Arrives(s) /\ g.req.route = "delete" /\ g.pc # "done")
                 => /\ g.pc = IF blogs[g.req.target].media # NoMedia
                              THEN "delete_media" ELSE "delete_remove"
                    /\ UNCHANGED <<blogs, cloud>>
              /\ (f.pc = "delete_media" /\ g # f)
                 => /\ g.pc = "delete_remove"
                    /\ cloud' = Append(cloud, f.doc.media)
                    /\ UNCHANGED blogs
              /\ (f.pc = "delete_remove" /\ g # f)
                 => /\ blogs'[f.req.target] = NoBlog
                    /\ UNCHANGED cloud]_vars

\* C14 (amended): a delete request that goes on to remove a post whose primary
\* media has a non-empty identifier issues, before the post is removed, exactly
\* one delete call to the media store, with that identifier, unless the
\* identifier starts with 'local:', in which case it issues none.
C14_DeleteCallsMediaStore ==
    [][\A s \in Slots :
          LET f == inflight[s]
              g == inflight'[s]
          IN  /\ (Arrives(s) /\ g.req.route = "delete" /\ g.pc # "done")
                 => /\ g.pc = IF blogs[g.req.target].media # NoMedia
                              THEN "delete_media" ELSE "delete_remove"
                    /\ UNCHANGED <<blogs, cloud>>
              /\ (f.pc = "delete_media" /\ g # f)
                 => /\ g.pc = "delete_remove"
                    /\ cloud' = IF f.doc.media = LocalMedia THEN cloud
                                ELSE Append(cloud, f.doc.media)
                    /\ UNCHANGED blogs
              /\ (f.pc = "delete_remove" /\ g # f)
                 => /\ blogs'[f.req.target] = NoBlog
                    /\ UNCHANGED cloud]_vars

\* A post with media in the media store was deleted, and the call for its
\* identifier is the last one recorded.
C14_Witness ==
    \E s \in Slots :
        /\ inflight[s].pc = "done"
        /\ inflight[s].req.route = "delete"
        /\ inflight[s].code = 200
        /\ blogs[inflight[s].req.target] = NoBlog
        /\ cloud # <<>>
        /\ cloud[Len(cloud)] \in MediaIds

\* C16: a signup whose email or username an existing identity holds when the
\* request is answered is answered 400 and creates no identity; and no two
\* identities share a username or an email.
C16_SignupUnique ==
    [][/\ \A i, j \in DOMAIN accounts' :
             i # j => /\ accounts'[i].username # accounts'[j].username
                      /\ accounts'[i].email # accounts'[j].email
       /\ \A s \in Slots :
             (/\ inflight'[s] # inflight[s]
              /\ inflight'[s].pc = "done"
              /\ inflight'[s].req.route = "signup"
              /\ \E i \in DOMAIN accounts :
                    \/ accounts[i].username = inflight'[s].req.body.username
                    \/ accounts[i].email = inflight'[s].req.body.email)
             => /\ inflight'[s].code = 400
                /\ UNCHANGED accounts]_vars

\* C18: no identity occurs more than once in a post's likes, so the number of
\* likes equals the number of distinct liking identities.
C18_LikesAreASet ==
    \A b \in BlogIds :
        Exists(b) => Len(blogs[b].likes) = Cardinality(SeqToSet(blogs[b].likes))

\* C19: no identity occurs more than once in any identity's following list or
\* followers list.
C19_NoDuplicateRelations ==
    \A u \in UserIds :
        /\ Len(users[u].following) = Cardinality(SeqToSet(users[u].following))
        /\ Len(users[u].followers) = Cardinality(SeqToSet(users[u].followers))

\* C20: when the first write of follow(a,b) has been made and the second write
\* is not made, the request is answered 500 and the stored state has b in
\* a.following and a not in b.followers.
C20_NoRollback ==
    [][\A s \in Slots :
          (/\ inflight[s].pc = "follow_save2"
           /\ inflight'[s].pc = "done"
           /\ users'[inflight[s].req.target].followers
                = users[inflight[s].req.target].followers)
          => /\ inflight'[s].code = 500
             /\ Includes(users'[inflight[s].user].following, inflight[s].req.target)
             /\ ~Includes(users'[inflight[s].req.target].followers, inflight[s].user)]_vars

\* A follow answered 500 after its first write: the relation is asymmetric.
C20_Witness ==
    \E s \in Slots :
        /\ inflight[s].pc = "done"
        /\ inflight[s].req.route = "follow"
        /\ inflight[s].stage = "handler"
        /\ inflight[s].code = 500
        /\ Includes(users[inflight[s].user].following, inflight[s].req.target)
        /\ ~Includes(users[inflight[s].req.target].followers, inflight[s].user)

\* C21: in every state a post whose status is draft has publishedAt = null.
C21_DraftHasNoDate ==
    \A b \in BlogIds :
        (Exists(b) /\ blogs[b].status = "draft") => blogs[b].publishedAt = Null

\* A post that an update published (with a date) and another update set to
\* draft again.
C21_Witness ==
    \E s, t \in Slots :
        /\ s # t
        /\ inflight[s].pc = "done" /\ inflight[t].pc = "done"
        /\ inflight[s].req.route = "update" /\ inflight[t].req.route = "update"
        /\ inflight[s].code = 200 /\ inflight[t].code = 200
        /\ inflight[s].req.target = inflight[t].req.target
        /\ inflight[s].req.body.status = "published"
        /\ inflight[s].data.blog.publishedAt # Null
        /\ inflight[t].req.body.status = "draft"
        /\ Exists(inflight[t].req.target)
        /\ blogs[inflight[t].req.target].status = "draft"

\* C22: an update or a delete that has reached its media-store call is never
\* answered from there, whether the call succeeds or throws: the update goes on
\* to write its patch and is answered 200, the delete goes on to remove the post
\* and is answered 200.
C22_MediaFailureNotSurfaced ==
    [][\A s \in Slots :
          LET f == inflight[s]
              g == inflight'[s]
          IN  /\ f.pc = "update_media" => g.pc \in {"update_media", "update_write"}
              /\ f.pc = "delete_media" => g.pc \in {"delete_media", "delete_remove"}
              /\ (f.pc = "update_write" /\ g.pc = "done")
                    => /\ g.code = 200
                       /\ blogs'[f.req.target] = ApplyUpdates(blogs[f.req.target], f.upd)
              /\ (f.pc = "delete_remove" /\ g.pc = "done")
                    => /\ g.code = 200
                       /\ blogs'[f.req.target] = NoBlog]_vars

\* The media-store call of an update threw, and the update was written and
\* answered 200.
C22_Witness ==
    \E s \in Slots :
        /\ mediaFailed
        /\ inflight[s].pc = "done"
        /\ inflight[s].req.route = "update"
        /\ inflight[s].code = 200
        /\ inflight[s].req.body.media # NoField
        /\ Len(cloud) = 1
        /\ blogs[inflight[s].req.target].media = inflight[s].req.body.media

\* C23: the write of an update answered 200 leaves the post's author, views,
\* likes and comments as they were, whatever keys the patch names; a create
\* answered 201 stores the authenticated requester as author with views 0 and
\* empty likes and comments; and no step changes the author of a stored post.
C23_UpdateFrame ==
    [][/\ \A s \in Slots :
             LET f == inflight[s]
                 g == inflight'[s]
             IN  /\ (/\ f.pc = "update_write" /\ g.pc = "done" /\ g.code = 200
                      /\ Exists(f.req.target))
                    => /\ blogs'[f.req.target].author = blogs[f.req.target].author
                       /\ blogs'[f.req.target].views = blogs[f.req.target].views
                       /\ blogs'[f.req.target].likes = blogs[f.req.target].likes
                       /\ blogs'[f.req.target].comments = blogs[f.req.target].comments
                 /\ (Arrives(s) /\ g.pc = "done" /\ g.req.route = "create" /\ g.code = 201)
                    => /\ blogs'[g.req.target].author = auth(g.req.hdr).user
                       /\ blogs'[g.req.target].views = 0
                       /\ blogs'[g.req.target].likes = <<>>
                       /\ blogs'[g.req.target].comments = <<>>
       /\ \A b \in BlogIds :
             (Exists(b) /\ blogs'[b] # NoBlog) => blogs'[b].author = blogs[b].author]_vars

\* An update whose patch named another identity as author was answered 200 on
\* a post that has a like and a comment.
C23_Witness ==
    \E s \in Slots :
        /\ inflight[s].pc = "done"
        /\ inflight[s].req.route = "update"
        /\ inflight[s].code = 200
        /\ "author" \in DOMAIN inflight[s].req.body
        /\ inflight[s].req.body.author # inflight[s].user
        /\ blogs[inflight[s].req.target].author = inflight[s].user
        /\ blogs[inflight[s].req.target].likes # <<>>
        /\ blogs[inflight[s].req.target].comments # <<>>

\* The entries of a list other than x, in their order.
Without(list, x) == SelectSeq(list, LAMBDA e : e # x)

C25_PublishedHasDate ==
    \A b \in BlogIds :
        (Exists(b) /\ blogs[b].status = "published") => blogs[b].publishedAt # Null

\* The update in frame f replaced the primary media of a post that had an
\* identifier, and the last call to the media store is the one it issued.
IssuedCall(f) ==
    /\ f.req.body.media # NoField
    /\ f.doc.media # NoMedia
    /\ cloud # <<>>
    /\ cloud[Len(cloud)] = f.doc.media

\* C26: when an update is written and answered 200, the identifier stored as
\* the post's primary media is not the one the update's media-store delete call
\* targeted.
C26_UpdateKeepsStoredAsset ==
    [][\A s \in Slots :
          LET f == inflight[s]
              g == inflight'[s]
          IN  (/\ f.pc = "update_write" /\ g.pc = "done" /\ g.code = 200
               /\ blogs'[f.req.target] # NoBlog
               /\ IssuedCall(f))
              => blogs'[f.req.target].media # f.doc.media]_vars

\* Identity x, by the step taken in slot s, has made the media store delete an
\* asset.
Destroys(s, x) ==
    /\ Len(cloud') > Len(cloud)
    /\ inflight'[s] # inflight[s]
    /\ x = IF inflight[s] = Idle THEN inflight'[s].user ELSE inflight[s].user

\* C27: every media-store delete call triggered by identity x targets no asset
\* that a post of another identity references.
C27_OwnAssetsOnly ==
    [][\A s \in Slots : \A x \in UserIds :
          Destroys(s, x)
          => \A b \in BlogIds :
                (Exists(b) /\ blogs[b].media = cloud'[Len(cloud')])
                => blogs[b].author = x]_vars

\* a follows b in a's list only: b is in a.following and a is not in
\* b.followers.
Asymmetric(us, a, b) == Includes(us[a].following, b) /\ ~Includes(us[b].followers, a)

Symmetric(us, a, b) == Includes(us[a].following, b) <=> Includes(us[b].followers, a)

\* The follow(a, b) in frame f has made its first write and not yet its second.
HalfWay(f, a, b) == f.pc = "follow_save2" /\ f.user = a /\ f.req.target = b

\* C28: while a follows b in a's list only and no follow(a, b) is between its
\* two writes, a follow(a, b) is answered 400 and changes nothing, and no step
\* of any follow request ends that state; the first write of an unfollow(a, b)
\* ends it, and the unfollow is answered 200 with b absent from a.following and
\* a absent from b.followers.
C28_OnlyUnfollowRepairs ==
    [][\A s \in Slots :
          LET f == inflight[s]
              g == inflight'[s]
          IN  /\ \A a, b \in UserIds :
                    (Asymmetric(users, a, b) /\ ~HalfWay(f, a, b))
                    => /\ (Arrives(s) /\ g.req.route = "follow" /\ g.user = a
                           /\ g.req.target = b)
                          => g.pc = "done" /\ g.code = 400 /\ users' = users
                       /\ (g # f /\ (IF f = Idle THEN g ELSE f).req.route = "follow")
                          => Asymmetric(users', a, b)
              /\ (f.pc = "unfollow_save1" /\ g # f
                  /\ Asymmetric(users, f.user, f.req.target))
                    => /\ g.pc = "unfollow_save2"
                       /\ Symmetric(users', f.user, f.req.target)
              /\ (f.pc = "unfollow_save2" /\ g # f)
                    => /\ g.pc = "done" /\ g.code = 200
                       /\ ~Includes(users'[f.user].following, f.req.target)
                       /\ ~Includes(users'[f.req.target].followers, f.user)]_vars

\* A follow(a, b) repeated in the asymmetric state was answered 400.
C28_Witness ==
    \E s \in Slots :
        /\ inflight[s].pc = "done"
        /\ inflight[s].req.route = "follow"
        /\ inflight[s].stage = "handler"
        /\ inflight[s].code = 400
        /\ inflight[s].user \in UserIds
        /\ inflight[s].req.target \in UserIds
        /\ Asymmetric(users, inflight[s].user, inflight[s].req.target)

\* C29: a logout answered 200 adds the token of its header to the revocation
\* set and nothing else, every other token is accepted or refused by auth and
\* resolved by optionalAuth exactly as before, and nothing else of the state
\* changes; a logout that is refused changes nothing.
C29_LogoutRevokesOneToken ==
    [][\A s \in Slots :
          LET g == inflight'[s]
          IN  (Arrives(s) /\ g.req.route = "logout")
              => /\ tokenBlacklist' =
                      IF g.code = 200 THEN tokenBlacklist \cup {g.req.hdr.token}
                      ELSE tokenBlacklist
                 /\ \A t \in (issued \cup {Forged}) \ {g.req.hdr.token} :
                       /\ auth(Bearer(t))' = auth(Bearer(t))
                       /\ optionalAuth(Bearer(t))' = optionalAuth(Bearer(t))
                 /\ UNCHANGED <<issued, users, blogs, nextBlog, cloud, accounts, now>>]_vars

\* After a logout answered 200 its token is revoked while another token of the
\* same identity is still accepted.
C29_Witness ==
    \E s \in Slots : \E t \in issued :
        /\ inflight[s].pc = "done"
        /\ inflight[s].req.route = "logout"
        /\ inflight[s].code = 200
        /\ inflight[s].req.hdr.token \in tokenBlacklist
        /\ t # inflight[s].req.hdr.token
        /\ t.userId = inflight[s].req.hdr.token.userId
        /\ auth(Bearer(t)).ok

\* C30: every stored post has status draft or published.
C30_NeverArchived ==
    \A b \in BlogIds : Exists(b) => blogs[b].status \in {"draft", "published"}

\* An update that asked for the status archived on an existing post of the
\* requester was answered 400.
C30_Witness ==
    \E s \in Slots :
        /\ inflight[s].pc = "done"
        /\ inflight[s].req.route = "update"
        /\ inflight[s].req.body.status = "archived"
        /\ inflight[s].code = 400
        /\ Exists(inflight[s].req.target)
        /\ blogs[inflight[s].req.target].author = inflight[s].user

====
